---------------------------- MODULE Spec2Model ----------------------------
(***************************************************************************)
(* Model of the musictool short-form pipeline: the alignment estimator     *)
(* (src/src/audio_align.py) and the clip-window selection                  *)
(* (src/src/cutter.py, src/src/scenes.py, src/src/hook_finder.py,          *)
(* src/src/cli.py).                                                        *)
(*                                                                         *)
(* Numbers.  Envelope samples are integers (multiples of one sample unit). *)
(* A lag is kept in sample periods: lag_seconds holds                      *)
(* lag_samples * hop_length, the number the code divides by sr.            *)
(* A confidence is the pair [num, den2] that stands for                    *)
(* num / (sqrt(den2) + 1e-10): num is the peak correlation and den2 the    *)
(* square of the product of the two norms.  Comparisons are done on the    *)
(* pair, exactly, with the guard 1e-10 treated as a positive quantity      *)
(* smaller than any difference of the compared numbers.                    *)
(***************************************************************************)
EXTENDS Integers, Sequences, FiniteSets, TLC

VARIABLES
    pc,                 \* position of the modelled call
    base_envelope,      \* audio_align.py: base onset envelope
    overlay_envelope,   \* audio_align.py: overlay onset envelope
    min_conf,           \* config["slicing"]["min_conf"], a rational <<n, d>>
    lag_seconds,        \* lag in sample periods (lag_samples * hop_length)
    estimate,           \* align_audio: (lag, confidence) before the confidence gate
    confidence,         \* [num, den2]
    shift,              \* time_shift_audio: the call align_audio made and its branch
    duration,           \* video duration, whole seconds
    clip_len,           \* clip length, whole seconds
    clip_stride,        \* stride, whole seconds
    window_starts,      \* list of clip start times
    scene_times,        \* scene boundaries handed to merge_scenes_with_windows
    max_clips,          \* <<>> for None, <<n>> for the integer n
    merged,             \* list returned by merge_scenes_with_windows
    scene_idx,          \* merge_scenes_with_windows: the scene pointer (1-based)
    window_idx,         \* merge_scenes_with_windows: the window pointer (1-based)
    scans,              \* per window handled: the scene positions its scan went over
                        \* and the position it substituted (0 for none)
    scene_detect,       \* main: --scene-detect
    hook_detect,        \* main: --hook-detect
    audio,              \* what the audio analysis of find_hooks gives for the audio file
    hooks,              \* timestamps of the hooks returned by find_hooks
    radius,             \* bias_starts_to_hooks: attraction_radius of the call
    biased,             \* list returned by bias_starts_to_hooks
    clips,              \* main: paths of the clips create_clip wrote, in order
    manifest_data,      \* main: the manifest as written to manifest.json
    timestamps,         \* filter_scenes_by_min_length: scene_times of the call
    filter_min_length,  \* filter_scenes_by_min_length: min_length of the call
    filter_result,      \* list returned by filter_scenes_by_min_length
    current_time,       \* generate_clip_starts: current_time of the loop
    selected_hooks,     \* find_hooks: timestamps of selected_hooks, in list order
    hook_count,         \* find_hooks: num_hooks of the call
    jobs,               \* BatchProcessor.jobs: the status of each BatchJob, in list order
    max_workers,        \* BatchProcessor.max_workers
    validation,         \* process_all: what validate_jobs returned
    valid_jobs,         \* process_all: positions in jobs of the valid_jobs list
    futures,            \* process_all: tasks submitted to the executor, in order
    results,            \* process_all: the results list
    summary,            \* what the last process_all call returned
    calls               \* process_all calls begun on this processor

alignVars == <<base_envelope, overlay_envelope, min_conf, estimate, lag_seconds,
               confidence, shift>>

windowVars == <<duration, clip_len, clip_stride, window_starts, scene_times,
                max_clips, merged>>

hookVars == <<scene_detect, hook_detect, audio, hooks>>

mergeVars == <<scene_idx, window_idx, scans>>

biasVars == <<radius, biased>>

outputVars == <<clips, manifest_data>>

filterVars == <<timestamps, filter_min_length, filter_result>>

loopVars == <<current_time, selected_hooks, hook_count>>

batchVars == <<jobs, max_workers, validation, valid_jobs, futures, results, summary,
               calls>>

vars == <<pc, alignVars, windowVars, mergeVars, hookVars, biasVars, outputVars,
          filterVars, loopVars, batchVars>>

-----------------------------------------------------------------------------
(* Bounds of the model *)

MaxLen == 3             \* longest envelope

Samples == {-1, 0, 1, 2}

MinConfs == {<<-1, 2>>, <<0, 1>>, <<3, 20>>, <<1, 2>>, <<1, 1>>}

MaxDuration == 100      \* longest video of the generate_clip_starts calls, seconds
MaxStarts == 40         \* most iterations of the generate_clip_starts loop
MaxWindows == 3         \* longest window list of the merge_scenes_with_windows calls
MaxScenes == 2          \* longest scene list of the merge_scenes_with_windows calls

ClipLens == {1, 2, 5, 20}
Strides == {1, 2, 3, 18, 30}

MaxKeyframes == 3       \* most keyframes ffprobe reports to detect_scenes
MaxPeaks == 2           \* most energy peaks find_energy_peaks reports

PipeDurations == {10, 25, 45, 60}
PipeClipLens == {10, 20, 40}
PipeStrides == {4, 10, 18}
KeyframeTimes == {0, 5, 9, 21, 22}
AudioDurations == {0, 25, 30, 45}
PeakTimes == {6, 12, 14, 21}

MergeTimes == {0, 2, 3, 7}
MergeClipLens == {4, 10}
MergeMaxClips == {<<>>, <<0>>, <<1>>, <<2>>}

MaxHooks == 2           \* longest hook list of the bias_starts_to_hooks calls
BiasTimes == {0, 2, 4, 9}
Radii == {-1, 0, 2, 5}

(* Program constants *)

sr == 48000
hop_length == 512

-----------------------------------------------------------------------------
(* Helpers *)

SeqsUpTo(n) == UNION {[1..k -> Samples] : k \in 0..n}

RECURSIVE SumSeq(_)
SumSeq(s) == IF s = <<>> THEN 0 ELSE Head(s) + SumSeq(Tail(s))

Abs(x) == IF x < 0 THEN -x ELSE x

MaxOf(a, b) == IF a >= b THEN a ELSE b

\* np.pad(x, (0, n - len(x))): zeros appended on the right up to length n
PadRight(x, n) == [i \in 1..n |-> IF i <= Len(x) THEN x[i] ELSE 0]

\* np.correlate(a, v, mode='full') for len(a) = len(v) = N: entry i (1-based)
\* is c_k = sum_n a[n+k] * v[n] for k = i - N, over the n with both in range
Correlate(a, v) ==
    LET N == Len(a)
    IN  [i \in 1..(2 * N - 1) |->
            LET k == i - N
            IN  SumSeq([n \in 1..N |->
                    IF n + k >= 1 /\ n + k <= N THEN a[n + k] * v[n] ELSE 0])]

\* np.argmax: the first index holding the maximum (1-based here)
ArgMax(c) ==
    CHOOSE i \in 1..Len(c) :
        /\ \A j \in 1..Len(c) : c[j] <= c[i]
        /\ \A j \in 1..(i - 1) : c[j] < c[i]

\* np.linalg.norm(x) squared
NormSq(x) == SumSeq([i \in 1..Len(x) |-> x[i] * x[i]])

ZeroConf == [num |-> 0, den2 |-> 0]

\* confidence < m for m = <<n, d>>, d > 0
ConfLess(c, m) ==
    LET a == c.num * m[2]
        b == m[1]
    IN  IF c.num = 0 THEN 0 < b
        ELSE IF a < 0 /\ b >= 0 THEN TRUE
        ELSE IF a >= 0 /\ b < 0 THEN FALSE
        ELSE IF a >= 0
             THEN \* both sides >= 0; on equality the guard pulls the quotient below m
                  a * a <= b * b * c.den2
             ELSE \* both sides < 0; on equality the guard pulls the quotient above m
                  a * a > b * b * c.den2

-----------------------------------------------------------------------------
(* The state before any call *)

NoShift == [seconds |-> 0, direction |-> "none", branch |-> "none"]
NoEstimate == [lag |-> 0, conf |-> ZeroConf]

AlignIdle ==
    /\ base_envelope = <<>>
    /\ overlay_envelope = <<>>
    /\ min_conf = <<0, 1>>
    /\ estimate = NoEstimate
    /\ lag_seconds = 0
    /\ confidence = ZeroConf
    /\ shift = NoShift

WindowIdle ==
    /\ duration = 0
    /\ clip_len = 0
    /\ clip_stride = 0
    /\ window_starts = <<>>
    /\ scene_times = <<>>
    /\ max_clips = <<>>
    /\ merged = <<>>

\* no audio analysed: [ok, duration, ranked_peaks] as extract_audio_energy,
\* find_energy_peaks and score_hook_potential give them (see find_hooks)
NoAudio == [ok |-> FALSE, duration |-> 0, ranked_peaks |-> <<>>]

HookIdle ==
    /\ scene_detect = FALSE
    /\ hook_detect = FALSE
    /\ audio = NoAudio
    /\ hooks = <<>>

MergeIdle ==
    /\ scene_idx = 1
    /\ window_idx = 1
    /\ scans = <<>>

BiasIdle ==
    /\ radius = 0
    /\ biased = <<>>

\* no manifest written
NoManifest == [written |-> FALSE]

OutputIdle ==
    /\ clips = <<>>
    /\ manifest_data = NoManifest

FilterIdle ==
    /\ timestamps = <<>>
    /\ filter_min_length = 0
    /\ filter_result = <<>>

LoopIdle ==
    /\ current_time = 0
    /\ selected_hooks = <<>>
    /\ hook_count = 0

\* no validation made, no summary returned
NoValidation == [valid |-> 0, invalid |-> 0, errors |-> <<>>]
NoSummary == [returned |-> FALSE]

\* BatchProcessor.__init__ (max_workers is set by the specification's Init)
BatchIdle ==
    /\ jobs = <<>>
    /\ validation = NoValidation
    /\ valid_jobs = <<>>
    /\ futures = <<>>
    /\ results = <<>>
    /\ summary = NoSummary
    /\ calls = 0

-----------------------------------------------------------------------------
(* audio_align.py: cross_correlation_alignment *)

\* Mutant of lag_samples: the 1-based index used as if it were 0-based
lag_samples_off_by_one(correlation, overlay_padded) ==
    ArgMax(correlation) - (Len(overlay_padded) - 1)

\* Mutant of lag_samples: the subtraction the other way round
lag_samples_negated(correlation, overlay_padded) ==
    (Len(overlay_padded) - 1) - (ArgMax(correlation) - 1)

\* line 61: np.argmax(correlation) - (len(overlay_padded) - 1)
lag_samples(correlation, overlay_padded) ==
    (ArgMax(correlation) - 1) - (Len(overlay_padded) - 1)

\* Mutant of cross_correlation_alignment: the lag taken against the length
\* of the overlay before padding
cross_correlation_alignment_unpadded(base, overlay) ==
    IF Len(base) = 0 \/ Len(overlay) = 0
    THEN [lag |-> 0, conf |-> ZeroConf]
    ELSE LET max_len == MaxOf(Len(base), Len(overlay))
             base_padded == PadRight(base, max_len)
             overlay_padded == PadRight(overlay, max_len)
             correlation == Correlate(base_padded, overlay_padded)
         IN  [lag  |-> lag_samples(correlation, overlay) * hop_length,
              conf |-> [num  |-> correlation[ArgMax(correlation)],
                        den2 |-> NormSq(base_padded) * NormSq(overlay_padded)]]

\* Mutant of cross_correlation_alignment: the peak divided by the norm of the
\* base alone
cross_correlation_alignment_one_norm(base, overlay) ==
    IF Len(base) = 0 \/ Len(overlay) = 0
    THEN [lag |-> 0, conf |-> ZeroConf]
    ELSE LET max_len == MaxOf(Len(base), Len(overlay))
             base_padded == PadRight(base, max_len)
             overlay_padded == PadRight(overlay, max_len)
             correlation == Correlate(base_padded, overlay_padded)
         IN  [lag  |-> lag_samples(correlation, overlay_padded) * hop_length,
              conf |-> [num  |-> correlation[ArgMax(correlation)],
                        den2 |-> NormSq(base_padded)]]

\* Mutant of cross_correlation_alignment: the empty case taken only when
\* both envelopes are empty
cross_correlation_alignment_both_empty(base, overlay) ==
    IF Len(base) = 0 /\ Len(overlay) = 0
    THEN [lag |-> 0, conf |-> ZeroConf]
    ELSE LET max_len == MaxOf(Len(base), Len(overlay))
             base_padded == PadRight(base, max_len)
             overlay_padded == PadRight(overlay, max_len)
             correlation == Correlate(base_padded, overlay_padded)
         IN  [lag  |-> lag_samples(correlation, overlay_padded) * hop_length,
              conf |-> [num  |-> correlation[ArgMax(correlation)],
                        den2 |-> NormSq(base_padded) * NormSq(overlay_padded)]]

cross_correlation_alignment(base, overlay) ==
    IF Len(base) = 0 \/ Len(overlay) = 0
    THEN [lag |-> 0, conf |-> ZeroConf]
    ELSE LET max_len == MaxOf(Len(base), Len(overlay))
             base_padded == PadRight(base, max_len)
             overlay_padded == PadRight(overlay, max_len)
             correlation == Correlate(base_padded, overlay_padded)
         IN  [lag  |-> lag_samples(correlation, overlay_padded) * hop_length,
              conf |-> [num  |-> correlation[ArgMax(correlation)],
                        den2 |-> NormSq(base_padded) * NormSq(overlay_padded)]]

-----------------------------------------------------------------------------
(* cutter.py: generate_clip_starts.  Times are whole seconds;                *)
(* x >= clip_len * 0.5 is written 2 * x >= clip_len.                         *)

\* Mutant of tail_clip: the remaining content must exceed half a clip
tail_clip_strict(now, d, cl) ==
    IF 2 * (d - now) > cl THEN <<now>> ELSE <<>>

\* lines 92-94: the final clip appended when at least half a clip remains
tail_clip(now, d, cl) ==
    IF 2 * (d - now) >= cl THEN <<now>> ELSE <<>>

\* lines 85-95: the while loop, from its test
RECURSIVE clip_loop(_, _, _, _, _)
clip_loop(start_times, now, d, cl, st) ==
    IF now + cl <= d
    THEN LET appended == Append(start_times, now)
             next_time == now + st
         IN  IF next_time + cl > d /\ next_time < d
             THEN appended \o tail_clip(next_time, d, cl)
             ELSE clip_loop(appended, next_time, d, cl, st)
    ELSE start_times

\* Mutant of generate_clip_starts: no short-video return, and the walk goes on
\* while the start lies inside the video
RECURSIVE clip_loop_inside(_, _, _, _)
clip_loop_inside(start_times, now, d, st) ==
    IF now < d
    THEN clip_loop_inside(Append(start_times, now), now + st, d, st)
    ELSE start_times

generate_clip_starts_inside(d, cl, st) == clip_loop_inside(<<>>, 0, d, st)

generate_clip_starts(d, cl, st) ==
    IF d < cl THEN <<>> ELSE clip_loop(<<>>, 0, d, cl, st)

\* A direct call generate_clip_starts(duration, clip_len, stride)
CallGenerateClipStarts ==
    /\ pc = "idle"
    /\ \E d \in 0..MaxDuration, cl \in ClipLens, st \in Strides :
          /\ d <= st * MaxStarts
          /\ duration' = d
          /\ clip_len' = cl
          /\ clip_stride' = st
          /\ window_starts' = generate_clip_starts(d, cl, st)
    /\ pc' = "starts_done"
    /\ UNCHANGED <<filterVars, loopVars, batchVars,
                   alignVars, scene_times, max_clips, merged, hookVars, biasVars, outputVars,
                   mergeVars>>

InitStarts ==
    /\ pc = "idle"
    /\ AlignIdle
    /\ WindowIdle
    /\ HookIdle
    /\ MergeIdle
    /\ BiasIdle
    /\ OutputIdle
    /\ FilterIdle
    /\ LoopIdle
    /\ BatchIdle
    /\ max_workers = 2

NextStarts == CallGenerateClipStarts

SpecStarts == InitStarts /\ [][NextStarts]_vars

-----------------------------------------------------------------------------
(* scenes.py: merge_scenes_with_windows.  None is the empty tuple, a value   *)
(* v the tuple <<v>>; x < clip_len * 0.3 is written 10 * x < 3 * clip_len.   *)

\* lines 112-127: the inner while loop over scene_times, from scene_idx = idx (1-based);
\* best is [nearby_scene, best_distance], <<>> standing for (None, inf)
RECURSIVE scan_scenes(_, _, _, _, _)
scan_scenes(scenes, idx, window_start, cl, best) ==
    IF idx > Len(scenes)
    THEN [scene_idx |-> idx, best |-> best]
    ELSE LET scene_time == scenes[idx]
         IN  IF 2 * scene_time < 2 * window_start - cl
             THEN scan_scenes(scenes, idx + 1, window_start, cl, best)
             ELSE IF 2 * scene_time > 2 * window_start + cl
             THEN [scene_idx |-> idx, best |-> best]
             ELSE LET distance == Abs(scene_time - window_start)
                      better == IF best = <<>> \/ distance < best[2]
                                THEN <<scene_time, distance>> ELSE best
                  IN  scan_scenes(scenes, idx + 1, window_start, cl, better)

\* Mutant of snap_start: any boundary found in the search range is taken
snap_start_any(window_start, cl, best) ==
    IF best # <<>> THEN best[1] ELSE window_start

\* the start for one window with the threshold included: a boundary exactly
\* 0.3 * clip_len away is taken too
snap_start_upto(window_start, cl, best) ==
    IF best # <<>> /\ 10 * best[2] <= 3 * cl THEN best[1] ELSE window_start

\* lines 129-132: the start appended for one window
snap_start(window_start, cl, best) ==
    IF best # <<>> /\ 10 * best[2] < 3 * cl THEN best[1] ELSE window_start

\* lines 106-134: the outer while loop
RECURSIVE merge_loop(_, _, _, _, _, _, _)
merge_loop(scenes, starts, cl, mc, out, idx, widx) ==
    IF widx <= Len(starts) /\ (mc = <<>> \/ Len(out) < mc[1])
    THEN LET window_start == starts[widx]
             scan == scan_scenes(scenes, idx, window_start, cl, <<>>)
         IN  merge_loop(scenes, starts, cl, mc,
                        Append(out, snap_start(window_start, cl, scan.best)),
                        scan.scene_idx, widx + 1)
    ELSE out

\* window_starts[:n] of Python
SlicePrefix(starts, n) ==
    IF n >= 0
    THEN SubSeq(starts, 1, IF n < Len(starts) THEN n ELSE Len(starts))
    ELSE SubSeq(starts, 1, IF Len(starts) + n > 0 THEN Len(starts) + n ELSE 0)

merge_scenes_with_windows(scenes, starts, cl, mc) ==
    IF scenes = <<>>
    THEN IF mc # <<>> /\ mc[1] # 0 THEN SlicePrefix(starts, mc[1]) ELSE starts
    ELSE merge_loop(scenes, starts, cl, mc, <<>>, 1, 1)

TimeSeqs(T, n) == UNION {[1..k -> T] : k \in 0..n}

IsSorted(s) == \A i \in 1..(Len(s) - 1) : s[i] <= s[i + 1]

IsStrictlyIncreasing(s) == \A i \in 1..(Len(s) - 1) : s[i] < s[i + 1]

\* A direct call merge_scenes_with_windows(scene_times, window_starts, clip_len, max_clips)
CallMergeScenes ==
    /\ pc = "idle"
    /\ \E sc \in {x \in TimeSeqs(MergeTimes, MaxScenes) : IsSorted(x)},
          ws \in TimeSeqs(MergeTimes, MaxWindows),
          cl \in MergeClipLens, mc \in MergeMaxClips :
          /\ scene_times' = sc
          /\ window_starts' = ws
          /\ clip_len' = cl
          /\ max_clips' = mc
          /\ merged' = merge_scenes_with_windows(sc, ws, cl, mc)
    /\ pc' = "merge_done"
    /\ UNCHANGED <<filterVars, loopVars, batchVars,
                   alignVars, duration, clip_stride, hookVars, biasVars, outputVars, mergeVars>>

InitMerge ==
    /\ pc = "idle"
    /\ AlignIdle
    /\ WindowIdle
    /\ HookIdle
    /\ MergeIdle
    /\ BiasIdle
    /\ OutputIdle
    /\ FilterIdle
    /\ LoopIdle
    /\ BatchIdle
    /\ max_workers = 2

NextMerge == CallMergeScenes

SpecMerge == InitMerge /\ [][NextMerge]_vars

-----------------------------------------------------------------------------
(* scenes.py: merge_scenes_with_windows, one step per window of its outer    *)
(* loop, with the two pointers in the state                                  *)

\* Mutant of merge_window: every window scans the scene list from its start
merge_window_from_start(scenes, idx, window_start, cl) ==
    LET scan == scan_scenes(scenes, 1, window_start, cl, <<>>)
    IN  [first |-> 1, scene_idx |-> scan.scene_idx, best |-> scan.best]

\* lines 109-127: the pass of the inner loop for one window, from the scene
\* pointer, with nearby_scene = None and best_distance = inf
merge_window(scenes, idx, window_start, cl) ==
    LET scan == scan_scenes(scenes, idx, window_start, cl, <<>>)
    IN  [first |-> idx, scene_idx |-> scan.scene_idx, best |-> scan.best]

\* the position of the boundary that line 130 appends: the first of the
\* positions gone over that holds nearby_scene; 0 when the window start is kept
substituted(scenes, w, window_start, cl) ==
    IF w.best # <<>> /\ 10 * w.best[2] < 3 * cl
    THEN CHOOSE j \in w.first..(w.scene_idx - 1) :
            /\ scenes[j] = w.best[1]
            /\ \A k \in w.first..(j - 1) : scenes[k] # w.best[1]
    ELSE 0

\* lines 99-104: the call; without scene boundaries it returns at once
MergeBegin ==
    /\ pc = "idle"
    /\ \E sc \in {x \in TimeSeqs(MergeTimes, MaxScenes) : IsSorted(x)},
          ws \in TimeSeqs(MergeTimes, MaxWindows),
          cl \in MergeClipLens, mc \in MergeMaxClips :
          /\ scene_times' = sc
          /\ window_starts' = ws
          /\ clip_len' = cl
          /\ max_clips' = mc
          /\ IF sc = <<>>
             THEN /\ merged' = (IF mc # <<>> /\ mc[1] # 0 THEN SlicePrefix(ws, mc[1]) ELSE ws)
                  /\ pc' = "merge_done"
             ELSE /\ merged' = <<>>
                  /\ pc' = "merging"
    /\ scene_idx' = 1
    /\ window_idx' = 1
    /\ scans' = <<>>
    /\ UNCHANGED <<filterVars, loopVars, batchVars,
                   alignVars, duration, clip_stride, hookVars, biasVars, outputVars>>

\* line 106: the test of the outer loop
merge_continues ==
    /\ window_idx <= Len(window_starts)
    /\ IF max_clips = <<>> THEN TRUE ELSE Len(merged) < max_clips[1]

\* lines 106-134: one iteration of the outer loop
MergeWindow ==
    /\ pc = "merging"
    /\ merge_continues
    /\ LET window_start == window_starts[window_idx]
           w == merge_window(scene_times, scene_idx, window_start, clip_len)
       IN  /\ merged' = Append(merged, snap_start(window_start, clip_len, w.best))
           /\ scene_idx' = w.scene_idx
           /\ scans' = Append(scans, [first |-> w.first, last |-> w.scene_idx - 1,
                                      taken |-> substituted(scene_times, w, window_start,
                                                            clip_len)])
    /\ window_idx' = window_idx + 1
    /\ pc' = "merging"
    /\ UNCHANGED <<filterVars, loopVars, batchVars,
                   alignVars, duration, clip_len, clip_stride, window_starts, scene_times,
                   max_clips, hookVars, biasVars, outputVars>>

\* line 136: the loop test fails and merged is returned
MergeReturn ==
    /\ pc = "merging"
    /\ ~merge_continues
    /\ pc' = "merge_done"
    /\ UNCHANGED <<filterVars, loopVars, batchVars,
                   alignVars, windowVars, mergeVars, hookVars, biasVars, outputVars>>

InitMergeSteps ==
    /\ pc = "idle"
    /\ AlignIdle
    /\ WindowIdle
    /\ HookIdle
    /\ MergeIdle
    /\ BiasIdle
    /\ OutputIdle
    /\ FilterIdle
    /\ LoopIdle
    /\ BatchIdle
    /\ max_workers = 2

NextMergeSteps == MergeBegin \/ MergeWindow \/ MergeReturn

SpecMergeSteps == InitMergeSteps /\ [][NextMergeSteps]_vars

-----------------------------------------------------------------------------
(* audio_align.py: align_audio *)

\* compute_onset_envelope: the empty array on any failure, otherwise the
\* z-score normalised onset strength, whose samples sum to zero
OnsetEnvelopes == {s \in SeqsUpTo(MaxLen) : SumSeq(s) = 0}

\* time_shift_audio: the branch taken for (shift_seconds, direction);
\* abs(shift_seconds) < 0.001 is abs(lag) * 1000 < sr in sample periods
time_shift_audio(shift_seconds, direction) ==
    IF Abs(shift_seconds) * 1000 < sr THEN "copy"
    ELSE IF direction = "delay" /\ shift_seconds > 0 THEN "delay"
    ELSE IF direction = "advance" /\ shift_seconds < 0 THEN "trim"
    ELSE "fallback"

\* Mutant of confidence_gate: only the confidence is reset, the lag is kept
confidence_gate_keeps_lag(r, mc) ==
    IF ConfLess(r.conf, mc) THEN [lag |-> r.lag, conf |-> ZeroConf] ELSE r

\* Mutant of confidence_gate: below the floor the lag is negated instead of reset
confidence_gate_flips_lag(r, mc) ==
    IF ConfLess(r.conf, mc) THEN [lag |-> -r.lag, conf |-> ZeroConf] ELSE r

\* align_audio lines 150-156: the confidence gate
confidence_gate(r, mc) ==
    IF ConfLess(r.conf, mc) THEN [lag |-> 0, conf |-> ZeroConf] ELSE r

\* Mutant of shift_direction: the overlay is always delayed
shift_direction_always_delay(lag) == "delay"

\* align_audio lines 165-180: the direction handed to time_shift_audio
shift_direction(lag) == IF lag >= 0 THEN "delay" ELSE "advance"

\* A direct call cross_correlation_alignment(base_envelope, overlay_envelope)
CallCrossCorrelation ==
    /\ pc = "idle"
    /\ LET r == cross_correlation_alignment(base_envelope, overlay_envelope)
       IN  /\ estimate' = r
           /\ lag_seconds' = r.lag
           /\ confidence' = r.conf
    /\ pc' = "xcorr_done"
    /\ UNCHANGED <<filterVars, loopVars, batchVars,
                   base_envelope, overlay_envelope, min_conf, shift, windowVars, hookVars,
                   biasVars, outputVars, mergeVars>>

\* A call align_audio(base_audio_path, overlay_audio_path, config): the two
\* envelopes are what compute_onset_envelope got from the files, ok is the
\* outcome of the ffmpeg run inside time_shift_audio
AlignAudio ==
    /\ pc = "idle"
    /\ base_envelope \in OnsetEnvelopes
    /\ overlay_envelope \in OnsetEnvelopes
    /\ \E mc \in MinConfs, ok \in BOOLEAN :
          LET est == IF Len(base_envelope) = 0 \/ Len(overlay_envelope) = 0
                     THEN [lag |-> 0, conf |-> ZeroConf]
                     ELSE cross_correlation_alignment(base_envelope, overlay_envelope)
              gated == confidence_gate(est, mc)
              dir == shift_direction(gated.lag)
          IN  /\ min_conf' = mc
              /\ estimate' = est
              /\ lag_seconds' = gated.lag
              /\ confidence' = gated.conf
              /\ shift' = [seconds |-> gated.lag, direction |-> dir,
                           branch |-> time_shift_audio(gated.lag, dir)]
              /\ pc' = IF ok THEN "align_returned" ELSE "align_raised"
    /\ UNCHANGED <<filterVars, loopVars, batchVars,
                   base_envelope, overlay_envelope, windowVars, hookVars, biasVars, outputVars,
                   mergeVars>>

\* The two feature sequences at hand are any sequences within the bounds
InitAlign ==
    /\ pc = "idle"
    /\ base_envelope \in SeqsUpTo(MaxLen)
    /\ overlay_envelope \in SeqsUpTo(MaxLen)
    /\ min_conf = <<0, 1>>
    /\ estimate = NoEstimate
    /\ lag_seconds = 0
    /\ confidence = ZeroConf
    /\ shift = NoShift
    /\ WindowIdle
    /\ HookIdle
    /\ MergeIdle
    /\ BiasIdle
    /\ OutputIdle
    /\ FilterIdle
    /\ LoopIdle
    /\ BatchIdle
    /\ max_workers = 2

NextAlign == CallCrossCorrelation \/ AlignAudio

SpecAlign == InitAlign /\ [][NextAlign]_vars

-----------------------------------------------------------------------------
(* scenes.py: detect_scenes and filter_scenes_by_min_length *)

RECURSIVE filter_loop(_, _, _, _)
filter_loop(times, i, filtered, min_length) ==
    IF i > Len(times) THEN filtered
    ELSE filter_loop(times, i + 1,
                     IF times[i] - filtered[Len(filtered)] >= min_length
                     THEN Append(filtered, times[i]) ELSE filtered,
                     min_length)

\* the filter with the gap taken to the previous input timestamp
RECURSIVE filter_loop_previous(_, _, _, _)
filter_loop_previous(times, i, filtered, min_length) ==
    IF i > Len(times) THEN filtered
    ELSE filter_loop_previous(times, i + 1,
                              IF times[i] - times[i - 1] >= min_length
                              THEN Append(filtered, times[i]) ELSE filtered,
                              min_length)

filter_scenes_by_previous(times, min_length) ==
    IF times = <<>> THEN <<>> ELSE filter_loop_previous(times, 2, <<times[1]>>, min_length)

filter_scenes_by_min_length(times, min_length) ==
    IF times = <<>> THEN <<>> ELSE filter_loop(times, 2, <<times[1]>>, min_length)

min_scene_len == 2

\* detect_scenes: the keyframe timestamps ffprobe printed, filtered; the
\* empty list when ffprobe failed
detect_scenes(keyframes, failed) ==
    IF failed THEN <<>> ELSE filter_scenes_by_min_length(keyframes, min_scene_len)

-----------------------------------------------------------------------------
(* hook_finder.py: find_hooks and bias_starts_to_hooks.                      *)
(* The audio analysis is outside the model: audio.ok says whether            *)
(* extract_audio_energy got an envelope (it returns the empty array with     *)
(* duration 0.0 otherwise), audio.duration is the duration it returned and   *)
(* audio.ranked_peaks the peak times of find_energy_peaks in the order the   *)
(* sort by descending hook_score leaves them.  A hook is its timestamp.      *)

\* lines 214-223: the peaks strictly between clip_len/2 and duration - clip_len/2
RECURSIVE candidate_times(_, _, _)
candidate_times(peaks, D, cl) ==
    IF peaks = <<>> THEN <<>>
    ELSE LET t == Head(peaks)
             rest == candidate_times(Tail(peaks), D, cl)
         IN  IF cl < 2 * t /\ 2 * t < 2 * D - cl THEN <<t>> \o rest ELSE rest

\* Mutant of select_hooks: every candidate is accepted, whatever its distance
\* to the hooks already selected
RECURSIVE select_hooks_unspaced(_, _, _, _, _)
select_hooks_unspaced(cands, i, selected, cl, num_hooks) ==
    IF i > Len(cands) \/ Len(selected) >= num_hooks THEN selected
    ELSE select_hooks_unspaced(cands, i + 1, Append(selected, cands[i]), cl, num_hooks)

\* lines 225-237: greedy acceptance in score order
RECURSIVE select_hooks(_, _, _, _, _)
select_hooks(cands, i, selected, cl, num_hooks) ==
    IF i > Len(cands) \/ Len(selected) >= num_hooks THEN selected
    ELSE LET too_close == \E j \in 1..Len(selected) :
                              2 * Abs(cands[i] - selected[j]) < cl
         IN  select_hooks(cands, i + 1,
                          IF too_close THEN selected ELSE Append(selected, cands[i]),
                          cl, num_hooks)

\* np.linspace(start, stop, num); the model's durations keep the grid on
\* whole seconds (GridExact)
linspace(start, stop, num) ==
    [i \in 1..num |->
        IF num = 1 THEN start ELSE start + ((i - 1) * (stop - start)) \div (num - 1)]

GridExact(D, cl) ==
    LET num == D \div cl
    IN  num <= 1 \/ (D - 2 * cl) % (num - 1) = 0

\* line 246: min(|t - h| for h in selected, default=inf); <<>> stands for inf
min_distance(t, selected) ==
    IF selected = <<>> THEN <<>>
    ELSE LET d(j) == Abs(t - selected[j])
         IN  <<d(CHOOSE j \in 1..Len(selected) : \A k \in 1..Len(selected) : d(j) <= d(k))>>

\* a > b on distances, <<>> being inf
DistGreater(a, b) ==
    IF b = <<>> THEN FALSE ELSE IF a = <<>> THEN TRUE ELSE a[1] > b[1]

\* lines 242-249: the scan of the grid; best_time is <<>> for None
RECURSIVE scan_grid(_, _, _, _, _)
scan_grid(grid, i, selected, best_time, best_gap) ==
    IF i > Len(grid) THEN best_time
    ELSE IF \E j \in 1..Len(selected) : selected[j] = grid[i]
    THEN scan_grid(grid, i + 1, selected, best_time, best_gap)
    ELSE LET md == min_distance(grid[i], selected)
         IN  IF DistGreater(md, best_gap)
             THEN scan_grid(grid, i + 1, selected, <<grid[i]>>, md)
             ELSE scan_grid(grid, i + 1, selected, best_time, best_gap)

\* lines 239-258: the backfill loop; len < duration / clip_len is
\* len * clip_len < duration, int(duration / clip_len) is duration \div clip_len
RECURSIVE backfill(_, _, _, _)
backfill(selected, D, cl, num_hooks) ==
    IF Len(selected) < num_hooks /\ Len(selected) * cl < D
    THEN LET best_time == scan_grid(linspace(cl, D - cl, D \div cl), 1, selected,
                                    <<>>, <<0>>)
         IN  IF best_time # <<>> /\ best_time[1] # 0
             THEN backfill(Append(selected, best_time[1]), D, cl, num_hooks)
             ELSE selected
    ELSE selected

\* list.sort on timestamps: insertion into an ascending list, equal keys kept in order
RECURSIVE sort_by_timestamp(_)
sort_by_timestamp(q) ==
    IF q = <<>> THEN <<>>
    ELSE LET init == sort_by_timestamp(SubSeq(q, 1, Len(q) - 1))
             x == q[Len(q)]
             n == Cardinality({j \in 1..Len(init) : init[j] <= x})
         IN  SubSeq(init, 1, n) \o <<x>> \o SubSeq(init, n + 1, Len(init))

\* lines 199-210: the uniform fallback; duration is the 0.0 that
\* extract_audio_energy returns with the empty envelope
uniform_hooks(D, num_hooks) ==
    [i \in 1..num_hooks |-> i * (D \div (num_hooks + 1))]

\* Mutant of find_hooks: the hooks are returned in the order of their selection
find_hooks_unsorted(a, cl, num_hooks) ==
    IF ~a.ok
    THEN uniform_hooks(a.duration, num_hooks)
    ELSE backfill(select_hooks(candidate_times(a.ranked_peaks, a.duration, cl),
                               1, <<>>, cl, num_hooks),
                  a.duration, cl, num_hooks)

find_hooks(a, cl, num_hooks) ==
    IF ~a.ok
    THEN uniform_hooks(a.duration, num_hooks)
    ELSE sort_by_timestamp(backfill(select_hooks(candidate_times(a.ranked_peaks, a.duration, cl),
                                       1, <<>>, cl, num_hooks),
                          a.duration, cl, num_hooks))

\* Mutant of biased_start: the first hook inside the radius is taken, not the
\* nearest one
biased_start_first(start, hook_times, attraction_radius) ==
    LET d(j) == Abs(hook_times[j] - start)
        nearby_hooks == {j \in 1..Len(hook_times) : d(j) < attraction_radius}
    IN  IF nearby_hooks # {}
        THEN hook_times[CHOOSE j \in nearby_hooks : \A k \in nearby_hooks : j <= k]
        ELSE start

\* the start for one window, the farthest hook inside the radius taken
biased_start_farthest(start, hook_times, attraction_radius) ==
    LET d(j) == Abs(hook_times[j] - start)
        nearby_hooks == {j \in 1..Len(hook_times) : d(j) < attraction_radius}
    IN  IF nearby_hooks # {}
        THEN hook_times[CHOOSE j \in nearby_hooks :
                            \A k \in nearby_hooks : d(j) > d(k) \/ (d(j) = d(k) /\ j <= k)]
        ELSE start

\* the start for one window, moved half of the way to the nearest hook
biased_start_midway(start, hook_times, attraction_radius) ==
    LET d(j) == Abs(hook_times[j] - start)
        nearby_hooks == {j \in 1..Len(hook_times) : d(j) < attraction_radius}
    IN  IF nearby_hooks # {}
        THEN (start + hook_times[CHOOSE j \in nearby_hooks :
                            \A k \in nearby_hooks : d(j) < d(k) \/ (d(j) = d(k) /\ j <= k)])
             \div 2
        ELSE start

\* lines 289-296: the start for one window
biased_start(start, hook_times, attraction_radius) ==
    LET d(j) == Abs(hook_times[j] - start)
        nearby_hooks == {j \in 1..Len(hook_times) : d(j) < attraction_radius}
    IN  IF nearby_hooks # {}
        THEN hook_times[CHOOSE j \in nearby_hooks :
                            \A k \in nearby_hooks : d(j) < d(k) \/ (d(j) = d(k) /\ j <= k)]
        ELSE start

bias_starts_to_hooks(starts, hook_times, attraction_radius) ==
    IF hook_times = <<>> THEN starts
    ELSE [i \in 1..Len(starts) |-> biased_start(starts[i], hook_times, attraction_radius)]

\* A direct call bias_starts_to_hooks(window_starts, hooks, attraction_radius)
CallBiasStarts ==
    /\ pc = "idle"
    /\ \E ws \in TimeSeqs(BiasTimes, MaxWindows), hs \in TimeSeqs(BiasTimes, MaxHooks),
          r \in Radii :
          /\ window_starts' = ws
          /\ hooks' = hs
          /\ radius' = r
          /\ biased' = bias_starts_to_hooks(ws, hs, r)
    /\ pc' = "bias_done"
    /\ UNCHANGED <<filterVars, loopVars, batchVars,
                   alignVars, duration, clip_len, clip_stride, scene_times, max_clips,
                   merged, scene_detect, hook_detect, audio, outputVars, mergeVars>>

InitBias ==
    /\ pc = "idle"
    /\ AlignIdle
    /\ WindowIdle
    /\ HookIdle
    /\ MergeIdle
    /\ BiasIdle
    /\ OutputIdle
    /\ FilterIdle
    /\ LoopIdle
    /\ BatchIdle
    /\ max_workers = 2

NextBias == CallBiasStarts

SpecBias == InitBias /\ [][NextBias]_vars

-----------------------------------------------------------------------------
(* cli.py: main, lines 139-160: the slicing of the master video *)

attraction_radius == 5

\* what the audio analysis can give for a clip length: nothing readable, or
\* a duration and peaks at least 100 frames (more than a second) apart
Audios(cl) ==
    {NoAudio} \cup
    {[ok |-> TRUE, duration |-> D, ranked_peaks |-> rp] :
        D \in {x \in AudioDurations : GridExact(x, cl)},
        rp \in {q \in TimeSeqs(PeakTimes, MaxPeaks) :
                  \A i, j \in 1..Len(q) : i # j => Abs(q[i] - q[j]) >= 2}}

\* the keyframe timestamps ffprobe prints for the master video: ascending,
\* inside the video, the first frame of the encoded file being a keyframe at 0
Keyframes(d) ==
    {x \in TimeSeqs(KeyframeTimes, MaxKeyframes) :
        /\ IsStrictlyIncreasing(x)
        /\ \A i \in 1..Len(x) : x[i] < d
        /\ x # <<>> => x[1] = 0}

\* lines 139-141
GenerateBaseStarts ==
    /\ pc = "idle"
    /\ \E d \in PipeDurations, cl \in PipeClipLens, st \in PipeStrides,
          sd \in BOOLEAN, hd \in BOOLEAN :
          /\ duration' = d
          /\ clip_len' = cl
          /\ clip_stride' = st
          /\ scene_detect' = sd
          /\ hook_detect' = hd
          /\ window_starts' = generate_clip_starts(d, cl, st)
    /\ pc' = "sliced"
    /\ UNCHANGED <<filterVars, loopVars, batchVars,
                   alignVars, scene_times, max_clips, merged, audio, hooks, biasVars,
                   outputVars, mergeVars>>

\* lines 144-149
ApplySceneDetection ==
    /\ pc = "sliced"
    /\ scene_detect
    /\ \E kf \in Keyframes(duration), failed \in BOOLEAN :
          LET sc == detect_scenes(kf, failed)
              out == merge_scenes_with_windows(sc, window_starts, clip_len, <<>>)
          IN  /\ scene_times' = sc
              /\ merged' = out
              /\ window_starts' = out
    /\ pc' = "scenes_applied"
    /\ UNCHANGED <<filterVars, loopVars, batchVars,
                   alignVars, duration, clip_len, clip_stride, max_clips, hookVars,
                   biasVars, outputVars, mergeVars>>

SkipSceneDetection ==
    /\ pc = "sliced"
    /\ ~scene_detect
    /\ pc' = "scenes_applied"
    /\ UNCHANGED <<filterVars, loopVars, batchVars,
                   alignVars, windowVars, hookVars, biasVars, outputVars, mergeVars>>

\* lines 152-160
ApplyHookDetection ==
    /\ pc = "scenes_applied"
    /\ hook_detect
    /\ \E a \in Audios(clip_len) :
          LET hs == find_hooks(a, clip_len, Len(window_starts))
          IN  /\ audio' = a
              /\ hooks' = hs
              /\ window_starts' = bias_starts_to_hooks(window_starts, hs, attraction_radius)
    /\ pc' = "final"
    /\ UNCHANGED <<filterVars, loopVars, batchVars,
                   alignVars, duration, clip_len, clip_stride, scene_times, max_clips,
                   merged, scene_detect, hook_detect, biasVars, outputVars, mergeVars>>

SkipHookDetection ==
    /\ pc = "scenes_applied"
    /\ ~hook_detect
    /\ pc' = "final"
    /\ UNCHANGED <<filterVars, loopVars, batchVars,
                   alignVars, windowVars, hookVars, biasVars, outputVars, mergeVars>>

InitPipeline ==
    /\ pc = "idle"
    /\ AlignIdle
    /\ WindowIdle
    /\ HookIdle
    /\ MergeIdle
    /\ BiasIdle
    /\ OutputIdle
    /\ FilterIdle
    /\ LoopIdle
    /\ BatchIdle
    /\ max_workers = 2

NextPipeline ==
    \/ GenerateBaseStarts
    \/ ApplySceneDetection
    \/ SkipSceneDetection
    \/ ApplyHookDetection
    \/ SkipHookDetection

SpecPipeline == InitPipeline /\ [][NextPipeline]_vars

-----------------------------------------------------------------------------
(* cli.py: main from the alignment to the manifest (lines 107-236), and      *)
(* cutter.py: create_clip.  A clip path is the pair of numbers in its file   *)
(* name clip_<start>_<end>.mp4; a Python tuple is [py |-> "tuple", items],   *)
(* a Python list and a JSON array are sequences.                             *)

ManifestEnvelopes == {<<>>, <<-1, 1>>, <<1, -1>>}
ManifestDurations == {10, 25}
ManifestClipLens == {10}
ManifestStrides == {4, 10, 18}
ManifestKeyframes == {<<0, 9>>}
ManifestAudios == {NoAudio, [ok |-> TRUE, duration |-> 25, ranked_peaks |-> <<6>>]}

\* create_clip lines 110-119: the output path, from int(start_time) and
\* int(start_time + duration); times are whole seconds
create_clip(start_time, d) == [start |-> start_time, end |-> start_time + d]

\* main lines 164-174: the paths of the clips whose cut succeeded, in order;
\* failed is the set of positions whose ffmpeg run failed
RECURSIVE cut_clips(_, _, _, _)
cut_clips(starts, i, cl, failed) ==
    IF i > Len(starts) THEN <<>>
    ELSE (IF i \in failed THEN <<>> ELSE <<create_clip(starts[i], cl)>>)
            \o cut_clips(starts, i + 1, cl, failed)

\* np.ndarray.shape of a one-dimensional array
shape(envelope) == [py |-> "tuple", items |-> <<Len(envelope)>>]

\* align_audio lines 185-191 (without the path) and main lines 198-226: the
\* parts of manifest_data that come from the alignment and the clips
manifest_value(lag, conf, base, overlay, paths) ==
    [written    |-> TRUE,
     alignment  |-> [original_offset        |-> lag,
                     confidence             |-> conf,
                     base_envelope_shape    |-> shape(base),
                     overlay_envelope_shape |-> shape(overlay)],
     processing |-> [clips_count |-> Len(paths)],
     outputs    |-> [clips_src |-> paths]]

\* json.dump of a tuple: the JSON array of its items, as for a list
json_array(t) == t.items

\* json.dump (line 230): numbers and strings are written as they are,
\* tuples and lists as arrays
json_dump(m) ==
    [written    |-> TRUE,
     alignment  |-> [original_offset        |-> m.alignment.original_offset,
                     confidence             |-> m.alignment.confidence,
                     base_envelope_shape    |-> json_array(m.alignment.base_envelope_shape),
                     overlay_envelope_shape |-> json_array(m.alignment.overlay_envelope_shape)],
     processing |-> m.processing,
     outputs    |-> m.outputs]

\* json.load of the manifest file: every array comes back as a list
json_load(doc) == doc

\* main lines 139-160 in one step, after align_audio returned
SliceMaster ==
    /\ pc = "align_returned"
    /\ \E d \in ManifestDurations, cl \in ManifestClipLens, st \in ManifestStrides,
          sd \in BOOLEAN, hd \in BOOLEAN,
          kf \in ManifestKeyframes, a \in ManifestAudios :
          LET base == generate_clip_starts(d, cl, st)
              sc == IF sd THEN detect_scenes(kf, FALSE) ELSE <<>>
              snapped == IF sd THEN merge_scenes_with_windows(sc, base, cl, <<>>) ELSE base
              hs == IF hd THEN find_hooks(a, cl, Len(snapped)) ELSE <<>>
          IN  /\ ~hd => a = NoAudio
              /\ duration' = d
              /\ clip_len' = cl
              /\ clip_stride' = st
              /\ scene_detect' = sd
              /\ hook_detect' = hd
              /\ scene_times' = sc
              /\ merged' = IF sd THEN snapped ELSE <<>>
              /\ audio' = a
              /\ hooks' = hs
              /\ window_starts' = IF hd
                                  THEN bias_starts_to_hooks(snapped, hs, attraction_radius)
                                  ELSE snapped
    /\ pc' = "final"
    /\ UNCHANGED <<filterVars, loopVars, batchVars,
                   alignVars, max_clips, biasVars, outputVars, mergeVars>>

\* main lines 162-174: one create_clip call per start, each of which can fail
CreateClips ==
    /\ pc = "final"
    /\ \E failed \in SUBSET (1..Len(window_starts)) :
          clips' = cut_clips(window_starts, 1, clip_len, failed)
    /\ pc' = "clips_cut"
    /\ UNCHANGED <<filterVars, loopVars, batchVars,
                   alignVars, windowVars, hookVars, biasVars, manifest_data, mergeVars>>

\* main lines 197-236: the manifest is written when --manifest is set;
\* without it the final return reads the unbound name manifest_data
WriteManifest ==
    /\ pc = "clips_cut"
    /\ \E manifest \in BOOLEAN :
          IF manifest
          THEN /\ manifest_data' = json_dump(manifest_value(lag_seconds, confidence,
                                        base_envelope, overlay_envelope, clips))
               /\ pc' = "manifest_written"
          ELSE /\ manifest_data' = manifest_data
               /\ pc' = "main_raised"
    /\ UNCHANGED <<filterVars, loopVars, batchVars,
                   alignVars, windowVars, hookVars, biasVars, clips, mergeVars>>

InitManifest ==
    /\ pc = "idle"
    /\ base_envelope \in ManifestEnvelopes
    /\ overlay_envelope \in ManifestEnvelopes
    /\ min_conf = <<0, 1>>
    /\ estimate = NoEstimate
    /\ lag_seconds = 0
    /\ confidence = ZeroConf
    /\ shift = NoShift
    /\ WindowIdle
    /\ HookIdle
    /\ MergeIdle
    /\ BiasIdle
    /\ OutputIdle
    /\ FilterIdle
    /\ LoopIdle
    /\ BatchIdle
    /\ max_workers = 2

NextManifest ==
    \/ AlignAudio
    \/ SliceMaster
    \/ CreateClips
    \/ WriteManifest

SpecManifest == InitManifest /\ [][NextManifest]_vars

-----------------------------------------------------------------------------
(* Claims about the alignment estimator, checked under SpecAlign *)

AllZero(s) == \A i \in 1..Len(s) : s[i] = 0

Zeros(d) == [i \in 1..d |-> 0]

\* the confidence is 1.0 up to the 1e-10 guard: num / sqrt(den2) = 1
ConfIsOne(c) == c.num > 0 /\ c.num * c.num = c.den2

\* the confidence is exactly 0.0
ConfIsZero(c) == c.num = 0

\* C1 as stated: for every non-empty A, cross_correlation_alignment(A, A)
\* returns lag 0.0 and confidence 1.0
C1_SelfAlignmentAnyA ==
    (pc = "xcorr_done" /\ base_envelope = overlay_envelope /\ base_envelope # <<>>)
        => (lag_seconds = 0 /\ ConfIsOne(confidence))

\* C1 amended: for every non-empty A that is not all-zero,
\* cross_correlation_alignment(A, A) returns lag 0.0 and confidence 1.0 (up
\* to the guard); for a non-empty all-zero A it returns the lag of the first
\* correlation index, -(len(A) - 1) * hop_length / sr, and confidence 0.0
C1_SelfAlignment ==
    (pc = "xcorr_done" /\ base_envelope = overlay_envelope /\ base_envelope # <<>>)
        => IF AllZero(base_envelope)
           THEN /\ lag_seconds = -(Len(base_envelope) - 1) * hop_length
                /\ ConfIsZero(confidence)
           ELSE /\ lag_seconds = 0
                /\ ConfIsOne(confidence)

C1_Witness ==
    /\ pc = "xcorr_done"
    /\ base_envelope = overlay_envelope
    /\ Len(base_envelope) = MaxLen
    /\ ~AllZero(base_envelope)
    /\ lag_seconds = 0

\* C2: when base is a not-all-zero overlay delayed by d frames the lag is
\* +d * hop_length / sr, when overlay is a not-all-zero base delayed by d
\* frames it is -d * hop_length / sr; the lag is (argmax index) - (N - 1)
\* frames for the padded length N
C2_SignConvention ==
    pc = "xcorr_done" =>
        /\ \A d \in 0..MaxLen :
              /\ (~AllZero(overlay_envelope) /\ overlay_envelope # <<>>
                    /\ base_envelope = Zeros(d) \o overlay_envelope)
                    => lag_seconds = d * hop_length
              /\ (~AllZero(base_envelope) /\ base_envelope # <<>>
                    /\ overlay_envelope = Zeros(d) \o base_envelope)
                    => lag_seconds = -d * hop_length
        /\ (base_envelope # <<>> /\ overlay_envelope # <<>>) =>
              LET N == MaxOf(Len(base_envelope), Len(overlay_envelope))
                  c == Correlate(PadRight(base_envelope, N), PadRight(overlay_envelope, N))
              IN  lag_seconds = ((ArgMax(c) - 1) - (N - 1)) * hop_length

C2_Witness ==
    /\ pc = "xcorr_done"
    /\ Len(overlay_envelope) = 2
    /\ ~AllZero(overlay_envelope)
    /\ base_envelope = Zeros(1) \o overlay_envelope
    /\ lag_seconds = hop_length

\* C3: every result of align_audio has confidence >= min_conf, or offset 0.0
\* and confidence 0.0; an estimate below the floor is reset before the shift,
\* so time_shift_audio is called with the gated lag
C3_ConfidenceGate ==
    pc \in {"align_returned", "align_raised"} =>
        /\ \/ ~ConfLess(confidence, min_conf)
           \/ (lag_seconds = 0 /\ ConfIsZero(confidence))
        /\ ConfLess(estimate.conf, min_conf) => (lag_seconds = 0 /\ ConfIsZero(confidence))
        /\ ~ConfLess(estimate.conf, min_conf)
              => (lag_seconds = estimate.lag /\ confidence = estimate.conf)
        /\ shift.seconds = lag_seconds

C3_Witness ==
    /\ pc = "align_returned"
    /\ estimate.lag # 0
    /\ ConfLess(estimate.conf, min_conf)
    /\ lag_seconds = 0

\* C4 as stated: for any two non-empty, not all-zero sequences the lag of
\* (A, B) is the negation of the lag of (B, A), also when the correlation has
\* several equal maxima
C4_LagAntisymmetryAlways ==
    (/\ pc = "xcorr_done"
     /\ base_envelope # <<>> /\ overlay_envelope # <<>>
     /\ ~AllZero(base_envelope) /\ ~AllZero(overlay_envelope))
        => lag_seconds
             = -cross_correlation_alignment(overlay_envelope, base_envelope).lag

\* the correlation of the padded sequences has its maximum at one index only
UniqueMaximum(a, b) ==
    LET N == MaxOf(Len(a), Len(b))
        c == Correlate(PadRight(a, N), PadRight(b, N))
    IN  \A i \in 1..Len(c) : c[i] = c[ArgMax(c)] => i = ArgMax(c)

\* C4 amended: for any two non-empty, not all-zero sequences whose
\* cross-correlation has a single maximum, the lag of (A, B) is the negation
\* of the lag of (B, A)
C4_LagAntisymmetry ==
    (/\ pc = "xcorr_done"
     /\ base_envelope # <<>> /\ overlay_envelope # <<>>
     /\ ~AllZero(base_envelope) /\ ~AllZero(overlay_envelope)
     /\ UniqueMaximum(base_envelope, overlay_envelope))
        => lag_seconds
             = -cross_correlation_alignment(overlay_envelope, base_envelope).lag

C4_Witness ==
    /\ pc = "xcorr_done"
    /\ Len(base_envelope) = 3 /\ Len(overlay_envelope) = 2
    /\ ~AllZero(base_envelope) /\ ~AllZero(overlay_envelope)
    /\ UniqueMaximum(base_envelope, overlay_envelope)
    /\ lag_seconds = 2 * hop_length

\* C5: with an empty envelope cross_correlation_alignment returns (0.0, 0.0),
\* and align_audio goes on to the shift with offset 0.0 and confidence 0.0
\* (a plain copy), which it reports when the copy succeeds
C5_EmptyEnvelope ==
    (base_envelope = <<>> \/ overlay_envelope = <<>>) =>
        /\ pc = "xcorr_done" => (lag_seconds = 0 /\ ConfIsZero(confidence))
        /\ pc \in {"align_returned", "align_raised"} =>
              /\ lag_seconds = 0
              /\ ConfIsZero(confidence)
              /\ shift = [seconds |-> 0, direction |-> "delay", branch |-> "copy"]

C5_Witness ==
    /\ pc = "align_returned"
    /\ base_envelope # <<>>
    /\ overlay_envelope = <<>>
    /\ min_conf = <<-1, 2>>
    /\ lag_seconds = 0
    /\ ConfIsZero(confidence)

-----------------------------------------------------------------------------
(* Claims about generate_clip_starts, checked under SpecStarts *)

\* the starts k * st with k * st + cl <= d, then the next stride position p
\* when p < d and d - p >= 0.5 * cl
ExpectedStarts(d, cl, st) ==
    LET n == Cardinality({k \in 0..d : k * st + cl <= d})
        p == n * st
    IN  [i \in 1..n |-> (i - 1) * st]
            \o (IF p < d /\ 2 * (d - p) >= cl THEN <<p>> ELSE <<>>)

\* C6: for duration >= clip_len > 0 and stride > 0 the result is the regular
\* starts in ascending order followed by the tail start exactly when at
\* least half a clip remains; (100, 20, 18) gives [0, 18, 36, 54, 72, 90]
\* and (45, 20, 18) gives [0, 18]
C6_ClipStarts ==
    (pc = "starts_done" /\ duration >= clip_len) =>
        /\ window_starts = ExpectedStarts(duration, clip_len, clip_stride)
        /\ (duration = 100 /\ clip_len = 20 /\ clip_stride = 18)
              => window_starts = <<0, 18, 36, 54, 72, 90>>
        /\ (duration = 45 /\ clip_len = 20 /\ clip_stride = 18)
              => window_starts = <<0, 18>>

C6_Witness ==
    /\ pc = "starts_done"
    /\ duration = 100 /\ clip_len = 20 /\ clip_stride = 18
    /\ window_starts = <<0, 18, 36, 54, 72, 90>>

\* C7: whenever duration < clip_len the result is the empty list
C7_ShortVideo ==
    (pc = "starts_done" /\ duration < clip_len) => window_starts = <<>>

C7_Witness ==
    /\ pc = "starts_done"
    /\ duration = 10 /\ clip_len = 20 /\ clip_stride = 18
    /\ window_starts = <<>>

-----------------------------------------------------------------------------
(* Claims about merge_scenes_with_windows, checked under SpecMerge *)

\* C8: every output start i is within 0.5 * clip_len of window_starts[i]: it
\* is window_starts[i] itself or a scene boundary of that window's search
\* range at distance < 0.3 * clip_len
C8_BoundedDisplacement ==
    pc = "merge_done" =>
        /\ Len(merged) <= Len(window_starts)
        /\ \A i \in 1..Len(merged) :
              /\ 2 * Abs(merged[i] - window_starts[i]) <= clip_len
              /\ \/ merged[i] = window_starts[i]
                 \/ \E j \in 1..Len(scene_times) :
                       /\ scene_times[j] = merged[i]
                       /\ 10 * Abs(scene_times[j] - window_starts[i]) < 3 * clip_len

C8_Witness ==
    /\ pc = "merge_done"
    /\ Len(merged) >= 2
    /\ merged[1] = window_starts[1]
    /\ merged[2] # window_starts[2]
    /\ IsStrictlyIncreasing(window_starts)

-----------------------------------------------------------------------------
(* Claims about the final list of clip starts, checked under SpecPipeline *)

\* C9: the list of clip start times handed to the clip cutter is in
\* ascending order
C9_FinalStartsAscending ==
    pc = "final" => IsSorted(window_starts)

\* C10: the final list of clip start times never contains the same start
\* time twice
C10_FinalStartsDistinct ==
    pc = "final" =>
        \A i, j \in 1..Len(window_starts) : i # j => window_starts[i] # window_starts[j]

-----------------------------------------------------------------------------
(* Claims about find_hooks and bias_starts_to_hooks, checked under SpecPipeline *)

\* C11: when the energy envelope cannot be obtained, find_hooks returns
\* exactly num_hooks hooks at i * duration / (num_hooks + 1) for
\* i = 1..num_hooks, duration being the duration passed to find_hooks
C11_UniformFallback ==
    (pc = "final" /\ hook_detect /\ ~audio.ok) =>
        /\ Len(hooks) = Len(window_starts)
        /\ \A i \in 1..Len(hooks) : hooks[i] * (Len(hooks) + 1) = i * duration

-----------------------------------------------------------------------------
(* Further claims about merge_scenes_with_windows, checked under SpecMerge *)

MinOf(a, b) == IF a <= b THEN a ELSE b

\* C12: when max_clips is given the result has exactly
\* min(len(window_starts), max_clips) start times, with and without scene
\* boundaries; without scene boundaries it is the prefix of window_starts of
\* that length
C12_MaxClips ==
    (pc = "merge_done" /\ max_clips # <<>>) =>
        /\ Len(merged) = MinOf(Len(window_starts), max_clips[1])
        /\ scene_times = <<>> => merged = SubSeq(window_starts, 1, Len(merged))

-----------------------------------------------------------------------------
(* Further claims about find_hooks, checked under SpecPipeline *)

\* the hooks find_hooks accepted in its greedy phase for the audio of the state
GreedyHooks ==
    select_hooks(candidate_times(audio.ranked_peaks, audio.duration, clip_len),
                 1, <<>>, clip_len, Len(window_starts))

\* C13: any two hooks accepted in the greedy score-ordered phase are at
\* least clip_len * 0.5 apart, the phase accepts at most num_hooks candidates,
\* and what it accepted is part of the result
C13_GreedySpacing ==
    (pc = "final" /\ hook_detect /\ audio.ok) =>
        /\ \A i, j \in 1..Len(GreedyHooks) :
              i # j => 2 * Abs(GreedyHooks[i] - GreedyHooks[j]) >= clip_len
        /\ Len(GreedyHooks) <= Len(window_starts)
        /\ \A i \in 1..Len(GreedyHooks) : \E j \in 1..Len(hooks) : hooks[j] = GreedyHooks[i]

C13_Witness ==
    /\ pc = "final" /\ hook_detect /\ audio.ok
    /\ Len(audio.ranked_peaks) = 2
    /\ Len(GreedyHooks) = 2
    /\ Len(window_starts) >= 2

-----------------------------------------------------------------------------
(* Claims about bias_starts_to_hooks, checked under SpecBias *)

\* C14: the result has the length of window_starts; element i is the
\* timestamp of a hook nearest to window_starts[i] when some hook lies
\* within attraction_radius of it (distance < attraction_radius), and
\* window_starts[i] otherwise
C14_BiasToNearestHook ==
    pc = "bias_done" =>
        /\ Len(biased) = Len(window_starts)
        /\ \A i \in 1..Len(window_starts) :
              LET s == window_starts[i]
                  near == {j \in 1..Len(hooks) : Abs(hooks[j] - s) < radius}
              IN  IF near = {}
                  THEN biased[i] = s
                  ELSE \E j \in near :
                          /\ biased[i] = hooks[j]
                          /\ \A k \in 1..Len(hooks) : Abs(hooks[j] - s) <= Abs(hooks[k] - s)

C14_Witness ==
    /\ pc = "bias_done"
    /\ radius = 5
    /\ window_starts = <<0, 4, 9>>
    /\ hooks = <<9, 2>>
    /\ biased = <<2, 2, 9>>

-----------------------------------------------------------------------------
(* Claims about the manifest, checked under SpecManifest *)

\* the clip starts a reloaded manifest holds: those in the names of clips_src
ManifestStarts(m) == [i \in 1..Len(m.outputs.clips_src) |-> m.outputs.clips_src[i].start]

\* C15: the manifest written by a pipeline run, when reloaded, gives back
\* the ordered list of final clip start times and the alignment scalars
\* original_offset and confidence, also when some clip cuts failed
C15_ManifestRoundTrip ==
    pc = "manifest_written" =>
        LET m == json_load(manifest_data)
        IN  /\ m.alignment.original_offset = lag_seconds
            /\ m.alignment.confidence = confidence
            /\ ManifestStarts(m) = window_starts

-----------------------------------------------------------------------------
(* Further claims about the alignment estimator, checked under SpecAlign *)

\* C16: applying the confidence gate twice with the same min_conf gives the
\* same (lag, confidence) as applying it once, for every estimate and every
\* min_conf, positive, zero or negative
C16_GateIdempotent ==
    /\ pc = "xcorr_done" =>
          \A mc \in MinConfs :
              confidence_gate(confidence_gate(estimate, mc), mc) = confidence_gate(estimate, mc)
    /\ pc \in {"align_returned", "align_raised"} =>
          confidence_gate([lag |-> lag_seconds, conf |-> confidence], min_conf)
              = [lag |-> lag_seconds, conf |-> confidence]

C16_Witness ==
    /\ pc = "xcorr_done"
    /\ confidence.num < 0
    /\ ConfLess(confidence, <<-1, 2>>)
    /\ confidence_gate(estimate, <<-1, 2>>) = [lag |-> 0, conf |-> ZeroConf]

\* C17: for any two non-empty sequences the confidence, the peak correlation
\* over the product of the norms of the padded sequences, lies in [-1, 1]:
\* the peak is at most the product of the norms in absolute value
C17_ConfidenceRange ==
    (pc = "xcorr_done" /\ base_envelope # <<>> /\ overlay_envelope # <<>>) =>
        /\ confidence.num * confidence.num <= confidence.den2
        /\ LET N == MaxOf(Len(base_envelope), Len(overlay_envelope))
           IN  confidence.den2 = NormSq(PadRight(base_envelope, N))
                                    * NormSq(PadRight(overlay_envelope, N))

C17_Witness ==
    /\ pc = "xcorr_done"
    /\ Len(base_envelope) = 1 /\ Len(overlay_envelope) = 1
    /\ confidence.num < 0
    /\ confidence.num * confidence.num = confidence.den2

\* C18: the list find_hooks returns is in ascending order of timestamp on
\* every path (peak-based selection, backfill, uniform fallback), whatever
\* the order in which the hooks were selected
C18_HooksSorted ==
    (pc = "final" /\ hook_detect) => IsSorted(hooks)

C18_Witness ==
    /\ pc = "final" /\ hook_detect /\ audio.ok
    /\ audio.ranked_peaks = <<21, 6>>
    /\ GreedyHooks = <<21, 6>>
    /\ Len(hooks) > 2
    /\ IsSorted(hooks)

\* C19: align_audio requests 'delay' exactly when lag_seconds >= 0 and
\* 'advance' exactly when lag_seconds < 0, and time_shift_audio then takes
\* its copy branch (|lag| < 0.001), its delay branch (lag > 0) or its trim
\* branch (lag < 0), never the 'unexpected shift scenario' fallback
C19_ShiftDirection ==
    pc \in {"align_returned", "align_raised"} =>
        /\ shift.seconds = lag_seconds
        /\ shift.direction = "delay" <=> lag_seconds >= 0
        /\ shift.direction = "advance" <=> lag_seconds < 0
        /\ shift.branch # "fallback"
        /\ shift.branch = "copy" <=> Abs(lag_seconds) * 1000 < sr
        /\ shift.branch = "delay" <=> (lag_seconds > 0 /\ Abs(lag_seconds) * 1000 >= sr)
        /\ shift.branch = "trim" <=> (lag_seconds < 0 /\ Abs(lag_seconds) * 1000 >= sr)

C19_Witness ==
    /\ pc = "align_returned"
    /\ lag_seconds < 0
    /\ shift.direction = "advance"
    /\ shift.branch = "trim"

-----------------------------------------------------------------------------
(* Claims about the scene pointer of merge_scenes_with_windows, checked      *)
(* under SpecMergeSteps                                                      *)

\* the scans of the windows went over disjoint stretches of the scene list,
\* one after the other, and no boundary was substituted twice
ScansAdvance ==
    /\ \A i \in 1..Len(scans) :
          /\ scans[i].first <= scans[i].last + 1
          /\ scans[i].taken # 0 => scans[i].taken \in scans[i].first..scans[i].last
    /\ \A i, k \in 1..Len(scans) :
          i < k => /\ scans[i].last < scans[k].first
                   /\ (scans[i].taken # 0 /\ scans[k].taken # 0)
                         => scans[i].taken < scans[k].taken
    /\ \A i \in 1..Len(scans) : scans[i].last < scene_idx

\* C20: the scene pointer only advances; a boundary that lay before or inside
\* the search range of an earlier window is never looked at for a later
\* window, so each boundary is substituted for at most one window start
C20_ScenePointerAdvances ==
    /\ [][scene_idx' >= scene_idx]_vars
    /\ [](pc \in {"merging", "merge_done"} => ScansAdvance)
    /\ [](pc = "merge_done" =>
            merged = merge_scenes_with_windows(scene_times, window_starts, clip_len, max_clips))

C20_Witness ==
    /\ pc = "merge_done"
    /\ scene_times = <<2, 3>>
    /\ window_starts = <<0, 3>>
    /\ clip_len = 10
    /\ max_clips = <<>>
    /\ merged = <<2, 3>>
    /\ scans = <<[first |-> 1, last |-> 2, taken |-> 1], [first |-> 3, last |-> 2, taken |-> 0]>>
    /\ scene_idx = 3

-----------------------------------------------------------------------------
(* scenes.py: direct calls of filter_scenes_by_min_length with any list,     *)
(* sorted or not, and a positive min_length                                  *)

FilterTimes == {0, 1, 2, 3, 5}
MinLengths == {1, 2, 3}

\* A direct call filter_scenes_by_min_length(scene_times, min_length)
CallFilterScenes ==
    /\ pc = "idle"
    /\ \E ts \in TimeSeqs(FilterTimes, MaxKeyframes), ml \in MinLengths :
          /\ timestamps' = ts
          /\ filter_min_length' = ml
          /\ filter_result' = filter_scenes_by_min_length(ts, ml)
    /\ pc' = "filter_done"
    /\ UNCHANGED <<alignVars, windowVars, mergeVars, hookVars, biasVars, outputVars,
                   loopVars, batchVars>>

InitFilter ==
    /\ pc = "idle"
    /\ AlignIdle
    /\ WindowIdle
    /\ HookIdle
    /\ MergeIdle
    /\ BiasIdle
    /\ OutputIdle
    /\ FilterIdle
    /\ LoopIdle
    /\ BatchIdle
    /\ max_workers = 2

NextFilter == CallFilterScenes

SpecFilter == InitFilter /\ [][NextFilter]_vars

-----------------------------------------------------------------------------
(* C21: for min_length > 0 and any input list, filter_scenes_by_min_length   *)
(* returns a strictly increasing list whose consecutive elements are at      *)
(* least min_length apart and which, for a non-empty input, begins with the  *)
(* first input timestamp; filtering the result again gives the result.       *)

C21_FilterSpacing ==
    pc = "filter_done" =>
        /\ filter_min_length > 0
        /\ IsStrictlyIncreasing(filter_result)
        /\ \A i \in 1..(Len(filter_result) - 1) :
              filter_result[i + 1] - filter_result[i] >= filter_min_length
        /\ (timestamps = <<>>) = (filter_result = <<>>)
        /\ timestamps # <<>> => filter_result[1] = timestamps[1]
        /\ filter_scenes_by_min_length(filter_result, filter_min_length) = filter_result

\* an unsorted input of which some, but not all, later timestamps are kept
C21_Witness ==
    /\ pc = "filter_done"
    /\ ~IsSorted(timestamps)
    /\ Len(filter_result) >= 2
    /\ Len(filter_result) < Len(timestamps)

-----------------------------------------------------------------------------
(* hook_finder.py: find_hooks, one action per iteration of the backfill loop *)

MaxNumHooks == 4        \* largest num_hooks of the find_hooks calls
HookClipLens == {5, 10, 20}

\* line 239: the test of the backfill loop
backfill_continues(selected, D, cl, wanted) ==
    Len(selected) < wanted /\ Len(selected) * cl < D

\* line 244: the grid of one iteration
backfill_grid(D, cl) == linspace(cl, D - cl, D \div cl)

\* the scan that takes the first grid point, selected or not
best_time_first(selected, D, cl) ==
    IF backfill_grid(D, cl) = <<>> THEN <<>> ELSE <<backfill_grid(D, cl)[1]>>

\* lines 240-249: best_time of one iteration, <<>> for None
best_time_of(selected, D, cl) ==
    scan_grid(backfill_grid(D, cl), 1, selected, <<>>, <<0>>)

\* line 251: if best_time (None and 0.0 are falsy)
truthy(best_time) == best_time # <<>> /\ best_time[1] # 0

\* find_hooks up to the backfill loop (lines 195-237)
BeginFindHooks ==
    /\ pc = "idle"
    /\ \E cl \in HookClipLens, wanted \in 0..MaxNumHooks :
          \E a \in Audios(cl) :
             /\ clip_len' = cl
             /\ hook_count' = wanted
             /\ audio' = a
             /\ IF ~a.ok
                THEN /\ hooks' = uniform_hooks(a.duration, wanted)
                     /\ selected_hooks' = <<>>
                     /\ pc' = "hooks_done"
                ELSE /\ hooks' = <<>>
                     /\ selected_hooks' =
                           select_hooks(candidate_times(a.ranked_peaks, a.duration, cl),
                                        1, <<>>, cl, wanted)
                     /\ pc' = "backfilling"
    /\ UNCHANGED <<alignVars, duration, clip_stride, window_starts, scene_times, max_clips,
                   merged, mergeVars, scene_detect, hook_detect, biasVars, outputVars,
                   filterVars, current_time, batchVars>>

\* one iteration of the backfill loop that appends (lines 239-256)
BackfillStep ==
    /\ pc = "backfilling"
    /\ backfill_continues(selected_hooks, audio.duration, clip_len, hook_count)
    /\ LET best_time == best_time_of(selected_hooks, audio.duration, clip_len)
       IN  /\ truthy(best_time)
           /\ selected_hooks' = Append(selected_hooks, best_time[1])
    /\ UNCHANGED <<pc, alignVars, windowVars, mergeVars, hookVars, biasVars, outputVars,
                   filterVars, current_time, hook_count, batchVars>>

\* the loop test fails or the iteration breaks (lines 239, 257-258); the sort
\* and the return (lines 260-264)
BackfillReturn ==
    /\ pc = "backfilling"
    /\ IF backfill_continues(selected_hooks, audio.duration, clip_len, hook_count)
       THEN ~truthy(best_time_of(selected_hooks, audio.duration, clip_len))
       ELSE TRUE
    /\ hooks' = sort_by_timestamp(selected_hooks)
    /\ pc' = "hooks_done"
    /\ UNCHANGED <<alignVars, windowVars, mergeVars, scene_detect, hook_detect, audio,
                   biasVars, outputVars, filterVars, loopVars, batchVars>>

InitHooks ==
    /\ pc = "idle"
    /\ AlignIdle
    /\ WindowIdle
    /\ HookIdle
    /\ MergeIdle
    /\ BiasIdle
    /\ OutputIdle
    /\ FilterIdle
    /\ LoopIdle
    /\ BatchIdle
    /\ max_workers = 2

NextHooks == BeginFindHooks \/ BackfillStep \/ BackfillReturn

\* find_hooks runs in one thread from its call to its return: a step that
\* can be taken is taken
SpecHooks == InitHooks /\ [][NextHooks]_vars /\ WF_vars(NextHooks)

-----------------------------------------------------------------------------
(* C22: the backfill loop of find_hooks terminates: a call that entered the  *)
(* loop returns; an iteration that does not stop appends one grid point      *)
(* whose timestamp differs from every hook selected before; the list         *)
(* returned has at most num_hooks hooks (and is what find_hooks computes).   *)

C22_InGrid(t) ==
    \E i \in 1..Len(backfill_grid(audio.duration, clip_len)) :
        backfill_grid(audio.duration, clip_len)[i] = t

C22_BackfillTerminates ==
    /\ (pc = "backfilling") ~> (pc = "hooks_done")
    /\ [][pc = "backfilling" /\ pc' = "backfilling" =>
             /\ Len(selected_hooks') = Len(selected_hooks) + 1
             /\ SubSeq(selected_hooks', 1, Len(selected_hooks)) = selected_hooks
             /\ C22_InGrid(selected_hooks'[Len(selected_hooks')])
             /\ \A j \in 1..Len(selected_hooks) :
                   selected_hooks[j] # selected_hooks'[Len(selected_hooks')]]_vars
    /\ [](pc = "hooks_done" =>
             /\ Len(hooks) <= hook_count
             /\ hooks = find_hooks(audio, clip_len, hook_count))

\* a call whose backfill loop appended two grid points to a greedy selection
\* and returned
C22_Witness ==
    /\ pc = "hooks_done"
    /\ audio.ok
    /\ Len(hooks) >= 3
    /\ Len(hooks) >= Len(candidate_times(audio.ranked_peaks, audio.duration, clip_len)) + 2
    /\ candidate_times(audio.ranked_peaks, audio.duration, clip_len) # <<>>

-----------------------------------------------------------------------------
(* cutter.py: generate_clip_starts, one action per iteration of its loop.    *)
(* The stride is what the CLI hands over unchecked: also zero or negative.   *)

LoopDurations == {0, 5, 10, 25, 37}
LoopStrides == {-2, 0, 1, 4, 18}

\* line 85: the while test
clip_loop_continues(now, d, cl) == now + cl <= d

\* the break taken whenever the next start is inside the video
tail_reached_inside(now, d, cl) == now < d

\* line 90: the test of the tail branch
tail_reached(now, d, cl) == now + cl > d /\ now < d

\* lines 77-83: the early return and the loop's start
BeginClipStarts ==
    /\ pc = "idle"
    /\ \E d \in LoopDurations, cl \in ClipLens, st \in LoopStrides :
          /\ st <= 0 \/ d <= st * MaxStarts
          /\ duration' = d
          /\ clip_len' = cl
          /\ clip_stride' = st
          /\ pc' = IF d < cl THEN "starts_done" ELSE "clip_loop"
    /\ window_starts' = <<>>
    /\ current_time' = 0
    /\ UNCHANGED <<alignVars, scene_times, max_clips, merged, mergeVars, hookVars,
                   biasVars, outputVars, filterVars, selected_hooks, hook_count,
                   batchVars>>

\* lines 85-95: one iteration; the list is capped at MaxStarts entries
ClipLoopStep ==
    /\ pc = "clip_loop"
    /\ clip_loop_continues(current_time, duration, clip_len)
    /\ Len(window_starts) < MaxStarts
    /\ LET next_time == current_time + clip_stride
       IN  /\ current_time' = next_time
           /\ IF tail_reached(next_time, duration, clip_len)
              THEN /\ window_starts' = Append(window_starts, current_time)
                                          \o tail_clip(next_time, duration, clip_len)
                   /\ pc' = "starts_done"
              ELSE /\ window_starts' = Append(window_starts, current_time)
                   /\ pc' = "clip_loop"
    /\ UNCHANGED <<alignVars, duration, clip_len, clip_stride, scene_times, max_clips,
                   merged, mergeVars, hookVars, biasVars, outputVars, filterVars,
                   selected_hooks, hook_count, batchVars>>

\* lines 85, 97: the while test fails, the list is returned
ClipLoopExit ==
    /\ pc = "clip_loop"
    /\ ~clip_loop_continues(current_time, duration, clip_len)
    /\ pc' = "starts_done"
    /\ UNCHANGED <<alignVars, windowVars, mergeVars, hookVars, biasVars, outputVars,
                   filterVars, loopVars, batchVars>>

InitClipLoop ==
    /\ pc = "idle"
    /\ AlignIdle
    /\ WindowIdle
    /\ HookIdle
    /\ MergeIdle
    /\ BiasIdle
    /\ OutputIdle
    /\ FilterIdle
    /\ LoopIdle
    /\ BatchIdle
    /\ max_workers = 2

NextClipLoop == BeginClipStarts \/ ClipLoopStep \/ ClipLoopExit

\* generate_clip_starts runs in one thread: an iteration that can be taken
\* is taken
SpecClipLoop == InitClipLoop /\ [][NextClipLoop]_vars /\ WF_vars(NextClipLoop)

-----------------------------------------------------------------------------
(* C24: for duration >= clip_len, generate_clip_starts returns if and only   *)
(* if stride > 0.  With stride > 0 the loop is left and the list returned is *)
(* strictly increasing and begins at 0; with stride <= 0 the call never      *)
(* returns: the while test holds before every iteration and the break is     *)
(* never taken.                                                              *)

C24_TerminatesIffPositiveStride ==
    /\ (pc = "clip_loop" /\ clip_stride > 0) ~> (pc = "starts_done")
    /\ [](pc = "starts_done" /\ duration >= clip_len =>
             /\ clip_stride > 0
             /\ window_starts # <<>>
             /\ window_starts[1] = 0
             /\ IsStrictlyIncreasing(window_starts)
             /\ window_starts = generate_clip_starts(duration, clip_len, clip_stride))
    /\ [](pc = "clip_loop" /\ clip_stride <= 0 =>
             /\ clip_loop_continues(current_time, duration, clip_len)
             /\ ~tail_reached(current_time + clip_stride, duration, clip_len))

\* a negative stride: the loop has appended MaxStarts starts and its test
\* still holds
C24_Witness ==
    /\ pc = "clip_loop"
    /\ clip_stride < 0
    /\ Len(window_starts) = MaxStarts
    /\ clip_loop_continues(current_time, duration, clip_len)

-----------------------------------------------------------------------------
(* C25: every final clip start s of a pipeline run has s >= 0 and            *)
(* duration - s >= 0.5 * clip_len, also when scene snapping and hook         *)
(* biasing were applied.                                                     *)

C25_HalfClipRemains ==
    pc = "final" =>
        \A i \in 1..Len(window_starts) :
            /\ window_starts[i] >= 0
            /\ 2 * (duration - window_starts[i]) >= clip_len

-----------------------------------------------------------------------------
(* scenes.py: direct calls merge_scenes_with_windows(scene_times,            *)
(* window_starts, clip_len, max_clips=None) as main makes them, on a time    *)
(* grid that has boundaries exactly 0.3 and 0.5 clip lengths from a window   *)
(* start and pairs of boundaries at equal distance on both sides of one      *)

NearTimes == {0, 2, 5, 6, 8, 10, 13, 16}
NearClipLens == {10}

CallMergeNearest ==
    /\ pc = "idle"
    /\ \E sc \in {x \in TimeSeqs(NearTimes, MaxScenes) : IsStrictlyIncreasing(x)},
          ws \in TimeSeqs(NearTimes, MaxWindows),
          cl \in NearClipLens :
          /\ scene_times' = sc
          /\ window_starts' = ws
          /\ clip_len' = cl
          /\ merged' = merge_scenes_with_windows(sc, ws, cl, <<>>)
    /\ max_clips' = <<>>
    /\ pc' = "merge_done"
    /\ UNCHANGED <<alignVars, duration, clip_stride, mergeVars, hookVars, biasVars,
                   outputVars, filterVars, loopVars, batchVars>>

InitNearest ==
    /\ pc = "idle"
    /\ AlignIdle
    /\ WindowIdle
    /\ HookIdle
    /\ MergeIdle
    /\ BiasIdle
    /\ OutputIdle
    /\ FilterIdle
    /\ LoopIdle
    /\ BatchIdle
    /\ max_workers = 2

NextNearest == CallMergeNearest

SpecNearest == InitNearest /\ [][NextNearest]_vars

-----------------------------------------------------------------------------
(* C26: for a strictly increasing scene list and window starts each at least *)
(* 0.8 * clip_len after the one before, merge_scenes_with_windows with       *)
(* max_clips=None returns what a full nearest-neighbour search returns: for  *)
(* each window the boundary nearest to it among all boundaries (the earlier  *)
(* one on a tie) if it is less than 0.3 * clip_len away, else the window     *)
(* start itself.                                                             *)

\* position of the boundary nearest to w, the earliest on a tie
C26_Nearest(scenes, w) ==
    CHOOSE j \in 1..Len(scenes) :
        \A k \in 1..Len(scenes) :
            \/ Abs(scenes[j] - w) < Abs(scenes[k] - w)
            \/ (Abs(scenes[j] - w) = Abs(scenes[k] - w) /\ j <= k)

C26_NearestNeighbour(scenes, w, cl) ==
    IF scenes = <<>> THEN w
    ELSE LET s == scenes[C26_Nearest(scenes, w)]
         IN  IF 10 * Abs(s - w) < 3 * cl THEN s ELSE w

C26_Spaced(starts, cl) ==
    \A i \in 1..(Len(starts) - 1) : 10 * (starts[i + 1] - starts[i]) >= 8 * cl

C26_EqualsNearestNeighbour ==
    (/\ pc = "merge_done"
     /\ max_clips = <<>>
     /\ IsStrictlyIncreasing(scene_times)
     /\ C26_Spaced(window_starts, clip_len)) =>
        merged = [i \in 1..Len(window_starts) |->
                     C26_NearestNeighbour(scene_times, window_starts[i], clip_len)]

\* three spaced windows: the first keeps its start, the second has
\* boundaries at equal distance on both sides and takes the earlier one, the
\* third finds the boundaries behind its search range and is not moved
C26_Witness ==
    /\ pc = "merge_done"
    /\ max_clips = <<>>
    /\ window_starts = <<0, 8, 16>>
    /\ scene_times = <<6, 10>>
    /\ clip_len = 10
    /\ merged = <<0, 6, 16>>

\* C26 as stated, the spacing read as a distance between any two window
\* starts whatever their order in the list
C26_SpacedAnyOrder ==
    (/\ pc = "merge_done"
     /\ max_clips = <<>>
     /\ IsStrictlyIncreasing(scene_times)
     /\ \A i, j \in 1..Len(window_starts) :
           i # j => 10 * Abs(window_starts[i] - window_starts[j]) >= 8 * clip_len) =>
        merged = [i \in 1..Len(window_starts) |->
                     C26_NearestNeighbour(scene_times, window_starts[i], clip_len)]

-----------------------------------------------------------------------------
(* C27: bias_starts_to_hooks preserves order: for any hook list and any      *)
(* attraction_radius, window starts in non-decreasing order give a returned  *)
(* list in non-decreasing order.                                             *)

C27_BiasKeepsOrder ==
    (pc = "bias_done" /\ IsSorted(window_starts)) => IsSorted(biased)

\* ascending starts of which one is moved forward and a later one back, the
\* hooks not being listed in ascending order
C27_Witness ==
    /\ pc = "bias_done"
    /\ IsStrictlyIncreasing(window_starts)
    /\ ~IsSorted(hooks)
    /\ \E i, j \in 1..Len(window_starts) :
          /\ i < j
          /\ biased[i] > window_starts[i]
          /\ biased[j] < window_starts[j]

-----------------------------------------------------------------------------
(* hook_finder.py: bias_starts_to_hooks called on two lists of the caller,   *)
(* then called again on the list it returned                                 *)

\* the caller's lists and radius, handed over by reference
PassBiasArguments ==
    /\ pc = "idle"
    /\ \E ws \in TimeSeqs(BiasTimes, MaxWindows), hs \in TimeSeqs(BiasTimes, MaxHooks),
          r \in Radii :
          /\ window_starts' = ws
          /\ hooks' = hs
          /\ radius' = r
    /\ pc' = "bias_called"
    /\ UNCHANGED <<alignVars, duration, clip_len, clip_stride, scene_times, max_clips,
                   merged, mergeVars, scene_detect, hook_detect, audio, biased,
                   outputVars, filterVars, loopVars, batchVars>>

\* lines 283-298: the call builds hook_times and adjusted_starts and assigns
\* to neither argument
BiasReturn ==
    /\ pc = "bias_called"
    /\ biased' = bias_starts_to_hooks(window_starts, hooks, radius)
    /\ pc' = "bias_done"
    /\ UNCHANGED <<alignVars, windowVars, mergeVars, hookVars, radius, outputVars,
                   filterVars, loopVars, batchVars>>

\* the second call, on the returned list with the same hooks and radius
BiasAgain ==
    /\ pc = "bias_done"
    /\ window_starts' = biased
    /\ biased' = bias_starts_to_hooks(biased, hooks, radius)
    /\ pc' = "bias_twice"
    /\ UNCHANGED <<alignVars, duration, clip_len, clip_stride, scene_times, max_clips,
                   merged, mergeVars, hookVars, radius, outputVars, filterVars,
                   loopVars, batchVars>>

InitBiasTwice ==
    /\ pc = "idle"
    /\ AlignIdle
    /\ WindowIdle
    /\ HookIdle
    /\ MergeIdle
    /\ BiasIdle
    /\ OutputIdle
    /\ FilterIdle
    /\ LoopIdle
    /\ BatchIdle
    /\ max_workers = 2

NextBiasTwice == PassBiasArguments \/ BiasReturn \/ BiasAgain

SpecBiasTwice == InitBiasTwice /\ [][NextBiasTwice]_vars

-----------------------------------------------------------------------------
(* C28: bias_starts_to_hooks is idempotent: called on the list it returned,  *)
(* with the same hooks and radius, it returns that list again; and a call    *)
(* leaves the two lists handed to it as they were.                           *)

C28_BiasIdempotent ==
    /\ [](pc = "bias_twice" => biased = window_starts)
    /\ [][pc = "bias_called" => /\ window_starts' = window_starts
                                /\ hooks' = hooks]_vars
    /\ [][pc = "bias_done" => hooks' = hooks]_vars

\* the first call moved a start to a hook and another hook is inside the
\* radius of that hook; the second call has returned
C28_Witness ==
    /\ pc = "bias_twice"
    /\ Len(hooks) = 2
    /\ hooks[1] # hooks[2]
    /\ Abs(hooks[1] - hooks[2]) < radius
    /\ \E i \in 1..Len(biased) : biased[i] = hooks[1]
    /\ \E i \in 1..Len(biased) : \A j \in 1..Len(hooks) : biased[i] # hooks[j]

-----------------------------------------------------------------------------
(* C29: within one pipeline run no two clips are written to the same output  *)
(* path: the path create_clip builds is different for every two entries of   *)
(* the final start list.                                                     *)

C29_DistinctClipPaths ==
    pc \in {"clips_cut", "manifest_written", "main_raised"} =>
        \A i, j \in 1..Len(window_starts) :
            i # j => create_clip(window_starts[i], clip_len)
                        # create_clip(window_starts[j], clip_len)

-----------------------------------------------------------------------------
(* batch_processor.py: BatchProcessor.  A job is its position in self.jobs   *)
(* and jobs[i] its status; whether the four files of a job exist is an input *)
(* of each validate_jobs call.  process_video either returns or raises an    *)
(* Exception.  The executor hands queued tasks to its max_workers threads in *)
(* submission order; as_completed yields finished futures in any order.      *)

MaxJobs == 3            \* most jobs added to one processor
MaxWorkers == 2         \* largest max_workers
MaxCalls == 2           \* most process_all calls on one processor

\* the positions whose flag is set, in ascending order
Positions(flags) == SelectSeq([i \in 1..Len(flags) |-> i], LAMBDA i : flags[i])

\* lines 103-135: validate_jobs; exists[i] says whether the files and the
\* preset of job i are there.  A job that passes keeps the status it has.
validate_jobs(js, exists) ==
    [jobs       |-> [i \in 1..Len(js) |->
                        IF exists[i] THEN js[i] ELSE "validation_failed"],
     validation |-> [valid   |-> Cardinality({i \in 1..Len(js) : exists[i]}),
                     invalid |-> Cardinality({i \in 1..Len(js) : ~exists[i]}),
                     errors  |-> Positions([i \in 1..Len(js) |-> ~exists[i]])]]

\* every job taken as valid, whatever its status
valid_positions_all(js) == [i \in 1..Len(js) |-> i]

\* line 181: valid_jobs
valid_positions(js) == Positions([i \in 1..Len(js) |-> js[i] # "validation_failed"])

\* lines 197-200: one future per entry of valid_jobs
submit(vj) == [k \in 1..Len(vj) |-> [job |-> vj[k], state |-> "queued", outcome |-> "none"]]

\* lines 153, 163: the status process_single_job leaves
status_after(raised) == IF raised THEN "failed" ELSE "completed"

\* lines 156-170: the status of the dictionary process_single_job returns
outcome_after(raised) == IF raised THEN "error" ELSE "success"

count_outcome(rs, o) == Cardinality({k \in 1..Len(rs) : rs[k].status = o})

\* lines 217-226: the summary (lines 184-190 when there is no valid job)
summary_of(js, v, rs) ==
    [returned   |-> TRUE,
     total      |-> Len(js),
     completed  |-> count_outcome(rs, "success"),
     failed     |-> count_outcome(rs, "error") + v.invalid,
     validation |-> v,
     results    |-> rs]

summary_no_valid_jobs(js, v) ==
    [returned   |-> TRUE,
     total      |-> Len(js),
     completed  |-> 0,
     failed     |-> Len(js),
     validation |-> v,
     results    |-> <<>>]

\* lines 67-101: add_job, between process_all calls
AddJob ==
    /\ pc \in {"idle", "batch_returned"}
    /\ Len(jobs) < MaxJobs
    /\ jobs' = Append(jobs, "pending")
    /\ UNCHANGED <<pc, alignVars, windowVars, mergeVars, hookVars, biasVars, outputVars,
                   filterVars, loopVars, max_workers, validation, valid_jobs, futures,
                   results, summary, calls>>

\* lines 174-200: validation, valid_jobs, the early return or the submission
\* of every valid job
BeginProcessAll ==
    /\ pc \in {"idle", "batch_returned"}
    /\ calls < MaxCalls
    /\ calls' = calls + 1
    /\ \E exists \in [1..Len(jobs) -> BOOLEAN] :
          LET checked == validate_jobs(jobs, exists)
              vj == valid_positions(checked.jobs)
          IN  /\ jobs' = checked.jobs
              /\ validation' = checked.validation
              /\ valid_jobs' = vj
              /\ results' = <<>>
              /\ IF vj = <<>>
                 THEN /\ futures' = <<>>
                      /\ summary' = summary_no_valid_jobs(jobs, checked.validation)
                      /\ pc' = "batch_returned"
                 ELSE /\ futures' = submit(vj)
                      /\ summary' = NoSummary
                      /\ pc' = "pool"
    /\ UNCHANGED <<alignVars, windowVars, mergeVars, hookVars, biasVars, outputVars,
                   filterVars, loopVars, max_workers>>

running == {k \in 1..Len(futures) : futures[k].state = "running"}
queued == {k \in 1..Len(futures) : futures[k].state = "queued"}

\* a free worker thread takes the oldest queued task: process_single_job up
\* to the call of process_video (lines 139-144)
StartJob ==
    /\ pc = "pool"
    /\ queued # {}
    /\ Cardinality(running) < max_workers
    /\ LET k == CHOOSE q \in queued : \A o \in queued : q <= o
       IN  /\ futures' = [futures EXCEPT ![k].state = "running"]
           /\ jobs' = [jobs EXCEPT ![futures[k].job] = "processing"]
    /\ UNCHANGED <<pc, alignVars, windowVars, mergeVars, hookVars, biasVars, outputVars,
                   filterVars, loopVars, max_workers, validation, valid_jobs, results,
                   summary, calls>>

\* process_video returns or raises in a worker thread (lines 144-170)
FinishJob ==
    /\ pc = "pool"
    /\ \E k \in running, raised \in BOOLEAN :
          /\ futures' = [futures EXCEPT ![k].state = "done",
                                        ![k].outcome = outcome_after(raised)]
          /\ jobs' = [jobs EXCEPT ![futures[k].job] = status_after(raised)]
    /\ UNCHANGED <<pc, alignVars, windowVars, mergeVars, hookVars, biasVars, outputVars,
                   filterVars, loopVars, max_workers, validation, valid_jobs, results,
                   summary, calls>>

\* the main thread takes a finished future from as_completed (lines 203-215)
CollectResult ==
    /\ pc = "pool"
    /\ \E k \in 1..Len(futures) :
          /\ futures[k].state = "done"
          /\ futures' = [futures EXCEPT ![k].state = "collected"]
          /\ results' = Append(results, [job |-> futures[k].job,
                                         status |-> futures[k].outcome])
    /\ UNCHANGED <<pc, alignVars, windowVars, mergeVars, hookVars, biasVars, outputVars,
                   filterVars, loopVars, jobs, max_workers, validation, valid_jobs,
                   summary, calls>>

\* every future was yielded: the summary is built, written and returned
\* (lines 217-237)
ReturnSummary ==
    /\ pc = "pool"
    /\ \A k \in 1..Len(futures) : futures[k].state = "collected"
    /\ summary' = summary_of(jobs, validation, results)
    /\ pc' = "batch_returned"
    /\ UNCHANGED <<alignVars, windowVars, mergeVars, hookVars, biasVars, outputVars,
                   filterVars, loopVars, jobs, max_workers, validation, valid_jobs,
                   futures, results, calls>>

InitBatch ==
    /\ pc = "idle"
    /\ AlignIdle
    /\ WindowIdle
    /\ HookIdle
    /\ MergeIdle
    /\ BiasIdle
    /\ OutputIdle
    /\ FilterIdle
    /\ LoopIdle
    /\ BatchIdle
    /\ max_workers \in 1..MaxWorkers

NextBatch ==
    \/ AddJob
    \/ BeginProcessAll
    \/ StartJob
    \/ FinishJob
    \/ CollectResult
    \/ ReturnSummary

SpecBatch == InitBatch /\ [][NextBatch]_vars


-----------------------------------------------------------------------------
(* C23: in process_all, with any number of worker threads, an exception      *)
(* raised while one job is processed marks only that job as failed: every    *)
(* job of valid_jobs is submitted exactly once, has status 'processing'      *)
(* while it runs and afterwards 'failed' if its own run raised and           *)
(* 'completed' if not, whatever the other jobs did; a job that failed        *)
(* validation is never submitted.  In the first call of a processor          *)
(* valid_jobs holds exactly the jobs that passed validation.                 *)

C23_FailedValidation == {validation.errors[e] : e \in 1..Len(validation.errors)}

-----------------------------------------------------------------------------
(* C30: after every process_all call, also a repeated one on the same        *)
(* processor and for every interleaving of the worker threads, the summary   *)
(* has completed + failed = total and exactly one result entry for each job  *)
(* that passed validation in that call.                                      *)

C30_SummaryCounts ==
    pc = "batch_returned" =>
        /\ summary.completed + summary.failed = summary.total
        /\ \A i \in 1..summary.total :
              (\A e \in 1..Len(summary.validation.errors) :
                    summary.validation.errors[e] # i) =>
                 Cardinality({k \in 1..Len(summary.results) :
                                 summary.results[k].job = i}) = 1

=============================================================================
